---- MODULE Spec2Model ----
(***************************************************************************)
(* Model of cocotbext/apb/base.py: the APB master driver (transmit queue   *)
(* + _transmit_pipeline coroutine), the APB slave driver (IDLE/ACCESS      *)
(* responder over a register list) and the APB monitor, all clocked by the *)
(* same rising edge.                                                       *)
(*                                                                         *)
(* Scheduling: every coroutine suspends only at `await RisingEdge(clock)`. *)
(* A signal assignment `sig.value = x` becomes visible to readers at the   *)
(* next edge; at an edge every coroutine reads the values that were        *)
(* standing before the edge.  So one Edge step reads the unprimed bus in   *)
(* all three coroutines and produces the primed bus.  A call of send()     *)
(* happens between two edges; cocotb.fork runs the new coroutine at once   *)
(* up to its first await, inside the call.                                 *)
(*                                                                         *)
(* Names the module leaves free are taken from the environment: the name   *)
(* `bus` in `hasattr(bus,'PSLVERR')` denotes the bus object, and           *)
(* `self.address_bits` of the slave is a value set by the test bench.      *)
(***************************************************************************)
EXTENDS Integers, Sequences, FiniteSets, TLC

\* ------------------------------------------------------------------ bounds
\* Number of send() and busy_send() calls made by the test bench in one run.
MaxSends == 2

\* Number of calls of the slave's reset() after construction.
MaxResets == 1

\* ------------------------------------------------------- environment values
\* self.address_bits of the slave (read at base.py:535).
address_bits == 5

\* The bus has the optional PSLVERR signal (hasattr(bus,'PSLVERR')).
HasPSLVERR == TRUE

\* The register list handed to the slave constructor (two words).
RegistersInit == <<5, 6>>

\* Byte addresses the test bench uses: word 0, word 1, word 2 (past the end
\* of the list but accepted by the slave's bounds check) and word 4
\* (rejected by the bounds check).
Addresses == {0, 4, 8, 16}

\* Python's None for a transaction's data / direction argument.
NoData == -1

\* Data values passed to APBTransaction(data=...).
DataValues == {NoData, 1}

\* Direction arguments passed to APBTransaction(direction=...).
DirectionArgs == {"None"}

\* Strobe lists passed to APBTransaction(strobe=...): lanes 0, 2 and 3.
Strobes == {<<TRUE, FALSE, TRUE, TRUE>>}

\* Probabilities (in percent) given to the slave constructor.
Probabilities == {0, 50, 100}

\* Values of random.random() (in percent of [0,1)): one below and one
\* above the intermediate probability.
RandomDraws == {25, 75}

\* Byte addresses used in the runs with busy_send(): word 0, word 2 and
\* word 4.
BusyAddresses == {0, 8, 16}

\* Word indices and values the test bench stores directly into the list it
\* handed to the slave constructor.
StoreWords == {0}
StoreValues == {1}

VARIABLES
    random_ready_probability,  \* slave: probability of a wait state
    random_error_probability,  \* slave: probability of an injected error
    txn,                \* the APBTransaction objects handed to send(), by id
    holds,              \* the hold argument of each send() call, by id
    transmit_queue,     \* master: deque of transaction ids
    transmit_coroutine, \* master: 0 or the handle of the forked pipeline
    transfer_busy,      \* master: "UNSET" (no attribute), "TRUE", "FALSE"
    pipelines,          \* every _transmit_pipeline coroutine forked so far
    completed,          \* ids whose acknowledgement the master has sampled
    bus,                \* the APB signals
    slave_state,        \* slave: "START", "IDLE", "ACCESS", "RAISED"
    registers,          \* slave: the register list
    recvQ,              \* monitor: the transactions given to _recv
    aborted,            \* a coroutine raised: the test run is over
    registers_init,     \* slave: the list bound to self.registers_init
    resets,             \* number of slave reset() calls after construction
    waiting,            \* ids whose busy_send() is suspended in its loop
    returned            \* ids whose busy_send() has returned

vars == <<random_ready_probability, random_error_probability, txn, holds,
          transmit_queue, transmit_coroutine, transfer_busy, pipelines,
          completed, bus, slave_state, registers, recvQ, aborted,
          registers_init, resets, waiting, returned>>

\* ------------------------------------------------------------ APBTransaction
\* APBTransaction.__init__: direction and data as the constructor sets them.
APBTransaction(address, data, direction, strobe) ==
    [address   |-> address,
     data      |-> IF data # NoData THEN data ELSE NoData,
     direction |-> IF data # NoData
                   THEN (IF direction # "None" THEN direction ELSE "WRITE")
                   ELSE "READ",
     strobe    |-> strobe,
     error     |-> FALSE]

RECURSIVE ParseBinary(_)
\* int(digits, 2) for a string of binary digits, first character first.
ParseBinary(digits) ==
    IF digits = <<>> THEN 0
    ELSE 2 * ParseBinary(SubSeq(digits, 1, Len(digits) - 1))
         + digits[Len(digits)]

\* APBTransaction._strobe(): the lanes joined into a string of '1' and '0'
\* in lane order, read as a binary number.
Strobe(strobe) ==
    ParseBinary([i \in 1..Len(strobe) |-> IF strobe[i] THEN 1 ELSE 0])

\* pwrite.index(direction) and pwrite[i].
PwriteIndex(direction) == IF direction = "WRITE" THEN 1 ELSE 0
Pwrite(i) == IF i = 1 THEN "WRITE" ELSE "READ"

\* ----------------------------------------------------------------- signals
\* The signal values after the constructors: the master has set its outputs
\* to zero, the slave has set PRDATA, PREADY and PSLVERR to zero.
BusInit ==
    [PSEL |-> 0, PENABLE |-> 0, PWRITE |-> 0, PADDR |-> 0, PWDATA |-> 0,
     PSTRB |-> 0, PRDATA |-> 0, PREADY |-> 0, PSLVERR |-> 0]

\* ------------------------------------------------------------- master driver
RECURSIVE PstrbInt(_, _)
\* The PSTRB loop of SETUP: sum of strobe[i] << i for the lanes from i on
\* (i is the 0-based lane).
PstrbInt(strobe, i) ==
    IF i >= Len(strobe) THEN 0
    ELSE (IF strobe[i + 1] THEN 2 ^ i ELSE 0) + PstrbInt(strobe, i + 1)

\* The local state of a _transmit_pipeline coroutine when it starts.
NewPipeline ==
    [state |-> "SETUP", current_transaction |-> 0,
     alive |-> TRUE, raised |-> FALSE]

\* Variant: the handle stays true after the task has finished.
CoroutineRunningNeverFinished(handle, pipes) ==
    handle # 0

\* bool(self.transmit_coroutine): 0 is false, a task is true until finished.
CoroutineRunning(handle, pipes) ==
    handle # 0 /\ pipes[handle].alive

\* Variant: the running coroutine is not consulted.
ShouldForkIgnoreRunning(hold, handle, pipes) ==
    ~hold

\* Variant: the hold argument is not consulted.
ShouldForkIgnoreHold(hold, handle, pipes) ==
    ~CoroutineRunning(handle, pipes)

\* `if not hold: if not self.transmit_coroutine:` of _driver_send.
ShouldFork(hold, handle, pipes) ==
    ~hold /\ ~CoroutineRunning(handle, pipes)

\* Variant: PSEL is left as it is.
ResetBusSignalsKeepSelect(b) ==
    [b EXCEPT !.PWDATA = 0, !.PWRITE = 0, !.PENABLE = 0]

\* Bus value after the quiescent writes at the end of _transmit_pipeline.
ResetBusSignals(b) ==
    [b EXCEPT !.PWDATA = 0, !.PWRITE = 0, !.PSEL = 0, !.PENABLE = 0]

\* The SETUP branch: pop the head of the queue and drive the control phase.
\* m is the master's view: queue, bus being written, busy flag, objects.
SetupPhase(p, m) ==
    IF Len(m.transmit_queue) = 0
    THEN \* popleft() of an empty deque raises IndexError
         [pipe |-> [p EXCEPT !.alive = FALSE, !.raised = TRUE], mview |-> m]
    ELSE
    LET id == Head(m.transmit_queue)
        t  == m.txn[id]
        b1 == [m.bus EXCEPT !.PSEL = 1,
                            !.PADDR = t.address,
                            !.PWRITE = PwriteIndex(t.direction),
                            !.PSTRB = PstrbInt(t.strobe, 0)]
        b2 == IF t.direction = "WRITE" THEN [b1 EXCEPT !.PWDATA = t.data]
              ELSE b1
    IN [pipe |-> [p EXCEPT !.state = "ACCESS", !.current_transaction = id],
        mview |-> [m EXCEPT !.transmit_queue = Tail(m.transmit_queue),
                        !.bus = b2]]

\* Variant: PENABLE is not asserted.
AccessPhaseNoEnable(p, m) ==
    [pipe |-> [p EXCEPT !.state = "SAMPLE"], mview |-> m]

\* The ACCESS branch: assert PENABLE.
AccessPhase(p, m) ==
    [pipe |-> [p EXCEPT !.state = "SAMPLE"],
     mview |-> [m EXCEPT !.bus.PENABLE = 1]]

\* One pass of the while loop from its condition to the next await, or the
\* code after the loop when the condition is false.
LoopPass(p, m) ==
    IF Len(m.transmit_queue) > 0 \/ p.state # "IDLE"
    THEN CASE p.state = "SETUP"  -> SetupPhase(p, m)
           [] p.state = "ACCESS" -> AccessPhase(p, m)
           [] OTHER              -> [pipe |-> p, mview |-> m]
    ELSE [pipe |-> [p EXCEPT !.alive = FALSE],
          mview |-> [m EXCEPT !.bus = ResetBusSignals(m.bus),
                          !.transfer_busy = "FALSE"]]

\* Variant: the next state after an acknowledged transfer is always IDLE.
SamplePhaseNoPipelining(p, m, rd) ==
    IF p.state = "SAMPLE" /\ rd.PREADY = 1
    THEN LET id == p.current_transaction
             t0 == m.txn[id]
             t1 == IF HasPSLVERR /\ rd.PSLVERR = 1
                   THEN [t0 EXCEPT !.error = TRUE] ELSE t0
             t2 == IF t1.direction = "READ"
                   THEN [t1 EXCEPT !.data = rd.PRDATA] ELSE t1
         IN [pipe |-> [p EXCEPT !.state = "IDLE"],
             mview |-> [m EXCEPT !.txn[id] = t2,
                             !.bus.PENABLE = 0,
                             !.completed = Append(m.completed, id)]]
    ELSE [pipe |-> p, mview |-> m]

\* Variant: PREADY is not tested before the transfer is taken as complete.
SamplePhaseNoReadyCheck(p, m, rd) ==
    IF p.state = "SAMPLE"
    THEN LET id == p.current_transaction
             t0 == m.txn[id]
             t1 == IF HasPSLVERR /\ rd.PSLVERR = 1
                   THEN [t0 EXCEPT !.error = TRUE] ELSE t0
             t2 == IF t1.direction = "READ"
                   THEN [t1 EXCEPT !.data = rd.PRDATA] ELSE t1
         IN [pipe |-> [p EXCEPT !.state = IF Len(m.transmit_queue) > 0
                                       THEN "SETUP" ELSE "IDLE"],
             mview |-> [m EXCEPT !.txn[id] = t2,
                             !.bus.PENABLE = 0,
                             !.completed = Append(m.completed, id)]]
    ELSE [pipe |-> p, mview |-> m]

\* The SAMPLE block after the await; rd is the bus as read at the edge.
SamplePhase(p, m, rd) ==
    IF p.state = "SAMPLE" /\ rd.PREADY = 1
    THEN LET id == p.current_transaction
             t0 == m.txn[id]
             t1 == IF HasPSLVERR /\ rd.PSLVERR = 1
                   THEN [t0 EXCEPT !.error = TRUE] ELSE t0
             t2 == IF t1.direction = "READ"
                   THEN [t1 EXCEPT !.data = rd.PRDATA] ELSE t1
         IN [pipe |-> [p EXCEPT !.state = IF Len(m.transmit_queue) > 0
                                       THEN "SETUP" ELSE "IDLE"],
             mview |-> [m EXCEPT !.txn[id] = t2,
                             !.bus.PENABLE = 0,
                             !.completed = Append(m.completed, id)]]
    ELSE [pipe |-> p, mview |-> m]

\* A suspended pipeline resumed by the rising edge, up to its next await.
ResumePipeline(p, m, rd) ==
    LET s == SamplePhase(p, m, rd)
    IN LoopPass(s.pipe, s.mview)

\* The start of _transmit_pipeline, run inside cocotb.fork up to the first
\* await.
StartPipeline(m) ==
    LoopPass(NewPipeline, [m EXCEPT !.transfer_busy = "TRUE"])

RECURSIVE ResumeAll(_, _, _, _)
\* All live pipelines resumed at one edge, in the order they were forked.
ResumeAll(pipes, i, m, rd) ==
    IF i > Len(pipes) THEN [pipes |-> pipes, mview |-> m]
    ELSE IF pipes[i].alive
         THEN LET r == ResumePipeline(pipes[i], m, rd)
              IN ResumeAll([pipes EXCEPT ![i] = r.pipe], i + 1, r.mview, rd)
         ELSE ResumeAll(pipes, i + 1, m, rd)

MasterView ==
    [txn |-> txn, transmit_queue |-> transmit_queue,
     transfer_busy |-> transfer_busy, completed |-> completed, bus |-> bus]

\* ---------------------------------------------------------------- slave
\* word_index = int((address % (2**address_bits - 1)) / 4)
WordIndex(address) == (address % (2 ^ address_bits - 1)) \div 4

\* Variant: a probability of 1 never triggers.
DrawTriggeredBelowOne(r, probability) == r < probability /\ probability # 100

\* random.random() < probability
DrawTriggered(r, probability) == r < probability

\* The bounds test of the IDLE branch: true means "invalid address".
IdleOutOfBounds(word_index, regs) == word_index - 1 > Len(regs)

\* The test guarding the register write of the ACCESS branch.
AccessCommitTest(word_index, regs) == word_index - 1 > Len(regs)

\* Python list indexing: valid for 0 <= i < len (indices are never negative
\* here).
ListIndexOk(regs, i) == i >= 0 /\ i < Len(regs)

\* Variant: the injected error drives no PSLVERR.
ErrorResponseNoSlverr(s) ==
    [s EXCEPT !.bus.PRDATA = 0]

\* The injected error response of the IDLE branch.
ErrorResponse(s) ==
    [s EXCEPT !.bus.PRDATA = 0,
              !.bus.PSLVERR = IF HasPSLVERR THEN 1 ELSE @]

\* The slave's loop body in state IDLE.  s = [state, registers, bus, raised].
SlaveIdle(s, rd, r1, r2, pready, perror) ==
    LET word_index == WordIndex(rd.PADDR) IN
    IF rd.PSEL # 1 THEN s
    ELSE IF DrawTriggered(r1, pready)
    THEN [s EXCEPT !.bus.PREADY = 0, !.state = "IDLE"]
    ELSE IF DrawTriggered(r2, perror)
    THEN [ErrorResponse(s) EXCEPT !.bus.PREADY = 1, !.state = "ACCESS"]
    ELSE IF IdleOutOfBounds(word_index, s.registers)
    THEN [s EXCEPT !.bus.PSLVERR = IF HasPSLVERR THEN 1 ELSE @,
                   !.bus.PREADY = 1, !.state = "ACCESS"]
    ELSE IF Pwrite(rd.PWRITE) = "READ"
    THEN IF ListIndexOk(s.registers, word_index)
         THEN [s EXCEPT !.bus.PRDATA = s.registers[word_index + 1],
                        !.bus.PREADY = 1, !.state = "ACCESS"]
         ELSE \* self.registers[word_index] raises IndexError
              [s EXCEPT !.state = "RAISED", !.raised = TRUE]
    ELSE [s EXCEPT !.bus.PREADY = 1, !.state = "ACCESS"]

\* The slave's loop body in state ACCESS.
SlaveAccess(s, rd) ==
    LET word_index == WordIndex(rd.PADDR)
        write == AccessCommitTest(word_index, s.registers)
                 /\ Pwrite(rd.PWRITE) = "WRITE"
    IN IF write /\ ~ListIndexOk(s.registers, word_index)
       THEN \* self.registers[word_index] = ... raises IndexError
            [s EXCEPT !.state = "RAISED", !.raised = TRUE]
       ELSE [s EXCEPT !.registers = IF write
                                    THEN [@ EXCEPT ![word_index + 1] = rd.PWDATA]
                                    ELSE @,
                      !.bus.PRDATA = 0, !.bus.PREADY = 1,
                      !.bus.PSLVERR = IF HasPSLVERR THEN 0 ELSE @,
                      !.state = "IDLE"]

\* APBSlaveDriver._monitor_recv resumed by the rising edge, up to its next
\* await.  On the first edge it drives PREADY = 1 and enters IDLE.
SlaveStep(state, regs, b, rd, r1, r2, pready, perror) ==
    LET s0 == [bus |-> b, registers |-> regs, state |-> state, raised |-> FALSE]
        s1 == IF state = "START"
              THEN [s0 EXCEPT !.bus.PREADY = 1, !.state = "IDLE"] ELSE s0
    IN CASE s1.state = "IDLE"   -> SlaveIdle(s1, rd, r1, r2, pready, perror)
         [] s1.state = "ACCESS" -> SlaveAccess(s1, rd)
         [] OTHER               -> s1

\* --------------------------------------------------------------- monitor
\* Variant: PREADY is not part of the monitor's condition.
MonitorSeesNoReady(rd) == rd.PSEL = 1 /\ rd.PENABLE = 1

\* APBMonitor._monitor_recv at one edge: the transaction it synthesises from
\* the bus, when PSEL, PENABLE and PREADY are all asserted.
MonitorSees(rd) == rd.PSEL = 1 /\ rd.PENABLE = 1 /\ rd.PREADY = 1

\* Variant: the data is always taken from PWDATA.
MonitorTransactionWriteData(rd) ==
    LET direction == Pwrite(rd.PWRITE)
        t == APBTransaction(rd.PADDR, rd.PWDATA, direction,
                            <<TRUE, TRUE, TRUE, TRUE>>)
    IN IF HasPSLVERR /\ rd.PSLVERR = 1 THEN [t EXCEPT !.error = TRUE] ELSE t

\* The transaction the monitor builds from the bus values it has read.
MonitorTransaction(rd) ==
    LET direction == Pwrite(rd.PWRITE)
        data == IF direction = "READ" THEN rd.PRDATA ELSE rd.PWDATA
        t == APBTransaction(rd.PADDR, data, direction, <<TRUE, TRUE, TRUE, TRUE>>)
    IN IF HasPSLVERR /\ rd.PSLVERR = 1 THEN [t EXCEPT !.error = TRUE] ELSE t

MonitorStep(q, rd) ==
    IF MonitorSees(rd) THEN Append(q, MonitorTransaction(rd)) ELSE q

\* ---------------------------------------------------------------- actions
\* Construction: master outputs and slave outputs set to zero, master
\* reset(), slave reset(), coroutines of slave and monitor waiting for
\* their first edge.
Init ==
    /\ random_ready_probability \in Probabilities
    /\ random_error_probability \in Probabilities
    /\ txn = <<>>
    /\ holds = <<>>
    /\ transmit_queue = <<>>
    /\ transmit_coroutine = 0
    /\ transfer_busy = "UNSET"
    /\ pipelines = <<>>
    /\ completed = <<>>
    /\ bus = BusInit
    /\ slave_state = "START"
    /\ registers = RegistersInit
    /\ recvQ = <<>>
    /\ aborted = FALSE
    /\ registers_init = RegistersInit
    /\ resets = 0
    /\ waiting = {}
    /\ returned = {}

\* send(transaction, hold=hold) -> _driver_send: append, and fork the
\* pipeline unless held or already running.
Enqueue(t, hold) ==
    /\ ~aborted
    /\ Len(txn) < MaxSends
    /\ holds' = Append(holds, hold)
    /\ LET id == Len(txn) + 1
           m0 == [MasterView EXCEPT !.txn = Append(txn, t),
                                    !.transmit_queue = Append(transmit_queue, id)]
       IN IF ShouldFork(hold, transmit_coroutine, pipelines)
          THEN LET r == StartPipeline(m0)
               IN /\ pipelines' = Append(pipelines, r.pipe)
                  /\ transmit_coroutine' = Len(pipelines) + 1
                  /\ txn' = r.mview.txn
                  /\ transmit_queue' = r.mview.transmit_queue
                  /\ transfer_busy' = r.mview.transfer_busy
                  /\ bus' = r.mview.bus
                  /\ completed' = r.mview.completed
                  /\ aborted' = r.pipe.raised
          ELSE /\ txn' = m0.txn
               /\ transmit_queue' = m0.transmit_queue
               /\ UNCHANGED <<pipelines, transmit_coroutine, transfer_busy,
                              bus, completed, aborted>>
    /\ UNCHANGED <<random_ready_probability, random_error_probability,
                   slave_state, registers, recvQ, registers_init, resets>>

\* A call of send(transaction, hold=hold) by the test bench, with an address
\* from the given set.
SendTo(addresses) ==
    /\ \E address \in addresses, data \in DataValues,
          direction \in DirectionArgs, strobe \in Strobes, hold \in BOOLEAN :
           Enqueue(APBTransaction(address, data, direction, strobe), hold)
    /\ UNCHANGED <<waiting, returned>>

Send == SendTo(Addresses)

\* Variant: the loop of busy_send is never entered.
BusyWaitNever(busy) == FALSE

\* `while (self.transfer_busy)` of busy_send: true means wait for an edge.
BusyWait(busy) == busy = "TRUE"

\* A call of busy_send(transaction): send() without hold, then the first
\* test of the loop.  The send has forked a run or found one alive, so the
\* transfer_busy attribute exists when it is read.
BusySend ==
    /\ \E address \in BusyAddresses, data \in DataValues,
          direction \in DirectionArgs, strobe \in Strobes :
           Enqueue(APBTransaction(address, data, direction, strobe), FALSE)
    /\ LET id == Len(txn) + 1
       IN IF BusyWait(transfer_busy')
          THEN waiting' = waiting \cup {id} /\ returned' = returned
          ELSE waiting' = waiting /\ returned' = returned \cup {id}

\* The values the first random.random() call of the slave can return at this
\* edge: the call is made only in IDLE with PSEL asserted.
FirstDraws ==
    IF slave_state \in {"START", "IDLE"} /\ bus.PSEL = 1
    THEN RandomDraws ELSE {0}

\* The values of the second random.random() call: it is made only when the
\* first draw r1 inserted no wait state.
SecondDraws(r1) ==
    IF slave_state \in {"START", "IDLE"} /\ bus.PSEL = 1
       /\ ~DrawTriggered(r1, random_ready_probability)
    THEN RandomDraws ELSE {0}

\* One rising edge of the clock: the master's pipelines, the slave and the
\* monitor each run from their await to the next one, all reading the bus
\* as it stood before the edge.  A coroutine that raises ends the run; the
\* other coroutines woken by the same edge still take their step.
Edge ==
    /\ ~aborted
    /\ \E r1 \in FirstDraws : \E r2 \in SecondDraws(r1) :
        LET rd == bus
            ma == ResumeAll(pipelines, 1, MasterView, rd)
            sl == SlaveStep(slave_state, registers, ma.mview.bus, rd, r1, r2,
                            random_ready_probability, random_error_probability)
        IN /\ pipelines' = ma.pipes
           /\ txn' = ma.mview.txn
           /\ transmit_queue' = ma.mview.transmit_queue
           /\ transfer_busy' = ma.mview.transfer_busy
           /\ completed' = ma.mview.completed
           /\ bus' = sl.bus
           /\ slave_state' = sl.state
           /\ registers' = sl.registers
           /\ registers_init' = sl.registers
           /\ recvQ' = MonitorStep(recvQ, rd)
           /\ aborted' = (sl.raised
                          \/ \E i \in 1..Len(ma.pipes) : ma.pipes[i].raised)
           /\ \E early \in SUBSET waiting :
                 LET done == {id \in early : ~BusyWait(transfer_busy)}
                             \cup {id \in waiting \ early :
                                      ~BusyWait(ma.mview.transfer_busy)}
                 IN /\ waiting' = waiting \ done
                    /\ returned' = returned \cup done
    /\ UNCHANGED <<random_ready_probability, random_error_probability,
                   transmit_coroutine, holds, resets>>

\* APBSlaveDriver.reset() called by the test bench: self.registers is bound
\* to the object self.registers_init is bound to.
SlaveReset ==
    /\ ~aborted
    /\ resets < MaxResets
    /\ resets' = resets + 1
    /\ registers' = registers_init
    /\ UNCHANGED <<random_ready_probability, random_error_probability, txn,
                   holds, transmit_queue, transmit_coroutine, transfer_busy,
                   pipelines, completed, bus, slave_state, recvQ, aborted,
                   registers_init, waiting, returned>>

\* The test bench stores a value into the list it handed to the slave
\* constructor.  self.registers_init and self.registers are bound to that
\* same list, so the store shows through both names.
StoreWrite ==
    /\ ~aborted
    /\ \E w \in StoreWords, v \in StoreValues :
          /\ ListIndexOk(registers_init, w)
          /\ registers_init[w + 1] # v
          /\ registers_init' = [registers_init EXCEPT ![w + 1] = v]
          /\ registers' = registers_init'
    /\ UNCHANGED <<random_ready_probability, random_error_probability, txn,
                   holds, transmit_queue, transmit_coroutine, transfer_busy,
                   pipelines, completed, bus, slave_state, recvQ, aborted,
                   resets, waiting, returned>>

Next == Send \/ Edge

Spec == Init /\ [][Next]_vars

\* The clock never stops: an edge that changes something is eventually taken.
FairSpec == Spec /\ WF_vars(Edge)

\* Runs in which the test bench also calls busy_send(), against a slave that
\* injects no errors.
InitBusy == Init /\ random_error_probability = 0

SendBusy == SendTo(BusyAddresses)

NextBusy == SendBusy \/ BusySend \/ Edge

SpecBusy == InitBusy /\ [][NextBusy]_vars

\* Runs in which the test bench also calls the slave's reset() and stores
\* into its own register list.
NextReset == Send \/ Edge \/ SlaveReset \/ StoreWrite

SpecReset == Init /\ [][NextReset]_vars

\* ------------------------------------------------------ shared definitions
\* Both slave probabilities are zero.
ZeroProbabilities ==
    random_ready_probability = 0 /\ random_error_probability = 0

\* The address selects a word that exists in the register list.
BoundsValid(address) == ListIndexOk(RegistersInit, WordIndex(address))

\* Some pipeline coroutine has been forked and has not finished.
PipelineActive == \E i \in 1..Len(pipelines) : pipelines[i].alive

RECURSIVE StoreAfterWrites(_, _)
\* The register list after the bounds-valid WRITEs among the completed
\* transfers ids[k..] have been applied in order to regs.
StoreAfterWrites(regs, ids) ==
    IF ids = <<>> THEN regs
    ELSE LET t == txn[Head(ids)]
         IN StoreAfterWrites(
                IF t.direction = "WRITE" /\ BoundsValid(t.address)
                THEN [regs EXCEPT ![WordIndex(t.address) + 1] = t.data]
                ELSE regs,
                Tail(ids))

\* ------------------------------------------------------------------ claims
\* C1: with both probabilities zero, once a WRITE to a bounds-valid address
\* has completed, the register list holds the written data at the word
\* index of the address and no other word has changed.
C1_WriteRoundTrip ==
    ZeroProbabilities => registers = StoreAfterWrites(RegistersInit, completed)

\* C2: with both probabilities zero, a READ completed right after a WRITE
\* to the same bounds-valid address ends with the written data in the
\* master's transaction.
C2_ReadAfterWrite ==
    ZeroProbabilities =>
        \A k \in 1..(Len(completed) - 1) :
            LET w == txn[completed[k]]
                r == txn[completed[k + 1]]
            IN (w.direction = "WRITE" /\ r.direction = "READ"
                /\ r.address = w.address /\ BoundsValid(w.address))
               => r.data = w.data

\* The sends so far were all held except the last one, which started the
\* pipeline: N transactions queued before the pipeline ran.
Batched ==
    /\ Len(holds) >= 2
    /\ \A i \in 1..(Len(holds) - 1) : holds[i]
    /\ ~holds[Len(holds)]

\* The ids 1..n in order.
Ids(n) == [i \in 1..n |-> i]

\* The k-th report of the monitor is about the k-th completed transfer.
ReportMatches(k) ==
    /\ recvQ[k].address = txn[completed[k]].address
    /\ recvQ[k].direction = txn[completed[k]].direction

\* An Edge step of a run in which pipeline 1 is suspended in SAMPLE takes
\* the transfer as complete and, when the queue is not empty, drives the
\* next transaction's control phase at once.
BackToBack ==
    (pipelines[1].state = "SAMPLE") =>
        /\ completed' = Append(completed, pipelines[1].current_transaction)
        /\ bus.PSEL = 1 /\ bus.PENABLE = 1 /\ bus'.PENABLE = 0
        /\ (transmit_queue # <<>>) =>
              /\ bus'.PSEL = 1
              /\ bus'.PADDR = txn[Head(transmit_queue)].address
              /\ bus'.PWRITE = PwriteIndex(txn[Head(transmit_queue)].direction)
              /\ pipelines'[1].state = "ACCESS"
              /\ pipelines'[1].current_transaction = Head(transmit_queue)
              /\ transmit_queue' = Tail(transmit_queue)

C4_ErrorInjection ==
    (random_error_probability = 100 /\ random_ready_probability = 0) =>
        /\ \A k \in 1..Len(recvQ) : recvQ[k].error
        /\ registers = RegistersInit

C4_Witness ==
    /\ random_error_probability = 100 /\ random_ready_probability = 0
    /\ Len(recvQ) = 2
    /\ recvQ[1].direction = "WRITE" /\ BoundsValid(recvQ[1].address)
    /\ recvQ[1].error /\ recvQ[2].error
    /\ slave_state = "IDLE"

\* C5: the monitor delivers exactly one transaction per transfer completed
\* by the master, in the same order, however long PSEL and PENABLE stay
\* asserted for it.
C5_ReportedOnce ==
    /\ Len(recvQ) = Len(completed)
    /\ \A k \in 1..Len(completed) : ReportMatches(k)
    /\ \A j, k \in 1..Len(completed) : j # k => completed[j] # completed[k]

\* The second transfer is stalled with PSEL and PENABLE asserted after the
\* first one has been reported once.
C5_Witness ==
    /\ Len(recvQ) = 1 /\ Len(completed) = 1
    /\ PipelineActive
    /\ \E i \in 1..Len(pipelines) :
           pipelines[i].alive /\ pipelines[i].state = "SAMPLE"
    /\ bus.PSEL = 1 /\ bus.PENABLE = 1 /\ bus.PREADY = 0

\* C6: transfer_busy is true exactly while a pipeline run is alive and
\* false in every other state, also before the first run.
C6_BusyFlag ==
    transfer_busy = IF PipelineActive THEN "TRUE" ELSE "FALSE"

\* C7: at most one pipeline run is alive; a send made while one is alive
\* forks nothing and leaves the transaction at the tail of the queue, and
\* a run only ends with the queue empty, so the running pipeline pops it.
C7_SinglePipeline ==
    /\ [](Cardinality({i \in 1..Len(pipelines) : pipelines[i].alive}) <= 1)
    /\ [][(Len(txn') = Len(txn) + 1 /\ PipelineActive)
           => (/\ pipelines' = pipelines
               /\ transmit_coroutine' = transmit_coroutine
               /\ transmit_queue' = Append(transmit_queue, Len(txn')))]_vars
    /\ [][(\E i \in 1..Len(pipelines) : pipelines[i].alive /\ ~pipelines'[i].alive)
           => transmit_queue' = <<>>]_vars

\* Two sends without hold, one pipeline run, both transfers completed by it.
C7_Witness ==
    /\ Len(holds) >= 2 /\ ~holds[1] /\ ~holds[2]
    /\ Len(pipelines) = 1
    /\ Len(completed) >= 2 /\ completed[1] = 1 /\ completed[2] = 2

\* C8: a send without hold made while no pipeline run is alive, also after
\* an earlier run has drained the queue and ended, forks a new run, which
\* drives the head of the queue onto the bus; no transaction sent without
\* hold is left in the queue with no run alive.
C8_Restart ==
    /\ [][(Len(txn') = Len(txn) + 1 /\ ~holds'[Len(txn')] /\ ~PipelineActive)
           => (/\ Len(pipelines') = Len(pipelines) + 1
               /\ pipelines'[Len(pipelines')].alive
               /\ transmit_coroutine' = Len(pipelines')
               /\ transfer_busy' = "TRUE"
               /\ bus'.PSEL = 1
               /\ LET q == Append(transmit_queue, Len(txn'))
                  IN /\ bus'.PADDR = txn'[Head(q)].address
                     /\ transmit_queue' = Tail(q))]_vars
    /\ [](~PipelineActive =>
             \A k \in 1..Len(transmit_queue) : holds[transmit_queue[k]])

\* A second run is alive after the first one has ended.
C8_Witness ==
    /\ Len(pipelines) = 2
    /\ ~pipelines[1].alive /\ pipelines[2].alive
    /\ completed = <<1>>
    /\ bus.PSEL = 1

\* C9: a send with hold only appends to the queue: no run is forked and no
\* signal changes; while no run has been forked PSEL and PENABLE are
\* deasserted and the queue holds every transaction sent, in order.
C9_HoldOnlyAppends ==
    /\ [][(Len(txn') = Len(txn) + 1 /\ holds'[Len(txn')])
           => (/\ transmit_queue' = Append(transmit_queue, Len(txn'))
               /\ UNCHANGED <<bus, pipelines, transmit_coroutine,
                              transfer_busy, completed>>)]_vars
    /\ [](Len(pipelines) = 0 =>
             (/\ bus.PSEL = 0 /\ bus.PENABLE = 0
              /\ transmit_queue = Ids(Len(txn))))

C9_Witness ==
    /\ Len(pipelines) = 0
    /\ Len(transmit_queue) = 2
    /\ slave_state = "IDLE"

\* C10: at an edge at which the master is in SAMPLE and PREADY is not
\* asserted, the master stays in SAMPLE with PSEL and PENABLE asserted,
\* PADDR, PWRITE, PWDATA and PSTRB unchanged and nothing popped.
C10_Stall ==
    [][\A i \in 1..Len(pipelines) :
          (pipelines[i].alive /\ pipelines[i].state = "SAMPLE"
           /\ bus.PREADY = 0 /\ txn' = txn /\ holds' = holds)
          => (/\ pipelines'[i] = pipelines[i]
              /\ bus.PSEL = 1 /\ bus.PENABLE = 1
              /\ bus'.PSEL = 1 /\ bus'.PENABLE = 1
              /\ bus'.PADDR = bus.PADDR /\ bus'.PWRITE = bus.PWRITE
              /\ bus'.PWDATA = bus.PWDATA /\ bus'.PSTRB = bus.PSTRB
              /\ transmit_queue' = transmit_queue
              /\ completed' = completed
              /\ transfer_busy' = transfer_busy)]_vars

\* The master has been stalled in SAMPLE by a slave that never acknowledges,
\* with a second transaction waiting in the queue.
C10_Witness ==
    /\ random_ready_probability = 100
    /\ Len(pipelines) = 1 /\ pipelines[1].state = "SAMPLE"
    /\ bus.PREADY = 0 /\ bus.PENABLE = 1
    /\ Len(transmit_queue) = 1
    /\ completed = <<>>

\* Some run of the pipeline is suspended in SAMPLE.
InSample ==
    \E i \in 1..Len(pipelines) :
        pipelines[i].alive /\ pipelines[i].state = "SAMPLE"

\* C11 (as stated): with random_ready_probability = 1 a transfer that has
\* reached SAMPLE is eventually acknowledged and completes.
C11_BoundedStall ==
    (random_ready_probability = 100 /\ InSample) ~> (completed # <<>>)

\* C11 (amended): with random_ready_probability = 1 the slave deasserts
\* PREADY at every edge at which it is selected, so no transfer is ever
\* acknowledged: nothing completes, nothing is reported, and a run of the
\* pipeline never leaves its first transfer.
C11_NeverAcknowledged ==
    random_ready_probability = 100 =>
        /\ completed = <<>> /\ recvQ = <<>>
        /\ InSample => bus.PREADY = 0
        /\ \A i \in 1..Len(pipelines) :
               /\ pipelines[i].alive
               /\ pipelines[i].state \in {"ACCESS", "SAMPLE"}
               /\ pipelines[i].current_transaction = 1

\* The master waits in SAMPLE with every send made and the slave, which has
\* drawn a wait state, back in IDLE.
C11_Witness ==
    /\ random_ready_probability = 100
    /\ InSample /\ bus.PREADY = 0 /\ slave_state = "IDLE"
    /\ Len(txn) = MaxSends

\* C12: every call of the slave's reset() leaves the register list equal to
\* the contents handed to the constructor, whatever was stored into the list
\* before the call and however many resets came before.
C12_ResetRestores ==
    [][(resets' = resets + 1) => registers' = RegistersInit]_vars

\* The step is one rising edge: no send and no reset is part of it.
EdgeStep == Len(txn') = Len(txn) /\ resets' = resets

\* C13: an edge that finds the slave in IDLE with PSEL asserted, with both
\* probabilities zero, asserts PSLVERR exactly when word_index - 1 exceeds
\* the length of the register list, and then also asserts PREADY and moves
\* to ACCESS; the slave goes on from ACCESS to IDLE and never raises for a
\* transfer it has answered with PSLVERR.
C13_OutOfBounds ==
    /\ [][(EdgeStep /\ ZeroProbabilities /\ slave_state = "IDLE"
            /\ bus.PSEL = 1)
           => LET rejected ==
                      IdleOutOfBounds(WordIndex(bus.PADDR), registers)
              IN /\ (bus'.PSLVERR = 1) <=> rejected
                 /\ rejected => (bus'.PREADY = 1 /\ slave_state' = "ACCESS")]_vars
    /\ [][(EdgeStep /\ slave_state = "ACCESS" /\ bus.PSLVERR = 1)
           => slave_state' = "IDLE"]_vars

\* PWDATA, PWRITE, PSEL and PENABLE are all zero.
Quiescent(b) == b.PWDATA = 0 /\ b.PWRITE = 0 /\ b.PSEL = 0 /\ b.PENABLE = 0

\* C14: a run of the pipeline ends only with the queue empty and its state
\* IDLE, and the edge at which it ends leaves PWDATA, PWRITE, PSEL and
\* PENABLE at zero; whenever runs have been forked and none is alive, those
\* four signals are zero.
C14_QuiescentExit ==
    /\ [][\A i \in 1..Len(pipelines) :
              (pipelines[i].alive /\ ~pipelines'[i].alive)
              => (/\ transmit_queue' = <<>>
                  /\ pipelines'[i].state = "IDLE"
                  /\ Quiescent(bus'))]_vars
    /\ []((Len(pipelines) > 0 /\ ~PipelineActive) => Quiescent(bus))

\* A run that has driven a WRITE with non-zero data has ended, and a held
\* transaction has been queued since.
C14_Witness ==
    /\ Len(pipelines) = 1 /\ ~PipelineActive
    /\ completed = <<1>>
    /\ txn[1].direction = "WRITE" /\ txn[1].data # 0
    /\ transmit_queue = <<2>>

\* C15: in the cycle after SETUP has driven a transfer (pipeline about to
\* run ACCESS) PSEL is asserted and PENABLE is not; from ACCESS on, while
\* the pipeline waits in SAMPLE, both are asserted, also across a stalled
\* edge; the edge at which PREADY is sampled finds PENABLE asserted and
\* leaves it deasserted, whether the next cycle is idle or the SETUP cycle
\* of the next transfer; PENABLE is never asserted while PSEL is not.
C15_EnableDiscipline ==
    /\ [](\A i \in 1..Len(pipelines) :
             pipelines[i].alive =>
                 /\ pipelines[i].state \in {"ACCESS", "SAMPLE"}
                 /\ bus.PSEL = 1
                 /\ bus.PENABLE = IF pipelines[i].state = "SAMPLE" THEN 1 ELSE 0)
    /\ [](bus.PENABLE = 1 => bus.PSEL = 1)
    /\ [](~PipelineActive => bus.PENABLE = 0)
    /\ [][(Len(completed') > Len(completed))
           => (bus.PENABLE = 1 /\ bus'.PENABLE = 0)]_vars
    /\ [][(EdgeStep /\ InSample /\ bus.PREADY = 0) => bus'.PENABLE = 1]_vars

\* The second transfer of a run is in its SETUP cycle, the first one having
\* completed after a stall-capable slave acknowledged it.
C15_Witness ==
    /\ random_ready_probability = 50
    /\ Len(pipelines) = 1 /\ pipelines[1].alive
    /\ pipelines[1].state = "ACCESS" /\ pipelines[1].current_transaction = 2
    /\ completed = <<1>>
    /\ bus.PSEL = 1 /\ bus.PENABLE = 0

\* The ids in a sequence of ids.
IdsIn(q) == {q[k] : k \in 1..Len(q)}

\* C16: a busy_send() call has returned only for a transaction whose
\* acknowledgement the master has sampled; the step at which it returns
\* leaves transfer_busy false, no run alive and the transaction neither in
\* the queue nor in flight.
C16_BusySend ==
    /\ [](\A id \in returned :
             id \in IdsIn(completed) /\ id \notin IdsIn(transmit_queue))
    /\ [](\A id \in waiting : id \notin returned)
    /\ [][\A id \in returned' \ returned :
              /\ id \in IdsIn(completed')
              /\ transfer_busy' = "FALSE"
              /\ \A i \in 1..Len(pipelines') : ~pipelines'[i].alive]_vars

\* busy_send() was called with a held transaction already in the queue and
\* has returned after both transfers completed.
C16_Witness ==
    /\ returned = {2}
    /\ holds[1]
    /\ completed = <<1, 2>>
    /\ ~PipelineActive

\* Bit i of the integer n.
BitSet(n, i) == (n \div (2 ^ i)) % 2 = 1

\* C17: for every transaction sent, _strobe() has bit i set exactly when
\* lane i of the strobe is asserted, and while the transaction is on the
\* bus PSTRB carries the value of _strobe().
C17_StrobeEncoding ==
    \A id \in 1..Len(txn) :
        LET strobe == txn[id].strobe
        IN /\ \A i \in 0..(Len(strobe) - 1) :
                 BitSet(Strobe(strobe), i) <=> strobe[i + 1]
           /\ \A k \in 1..Len(pipelines) :
                 (pipelines[k].alive /\ pipelines[k].current_transaction = id)
                 => bus.PSTRB = Strobe(strobe)

\* The edge inserted a wait state: PREADY deasserted, slave still in IDLE,
\* PRDATA, PSLVERR and the register list as before.
WaitInserted ==
    /\ bus'.PREADY = 0 /\ slave_state' = "IDLE"
    /\ bus'.PRDATA = bus.PRDATA /\ bus'.PSLVERR = bus.PSLVERR
    /\ registers' = registers

\* The edge acknowledged the transfer: PREADY asserted, slave in ACCESS.
Acknowledged == bus'.PREADY = 1 /\ slave_state' = "ACCESS"

\* C18: every edge that finds the slave in IDLE with PSEL asserted either
\* inserts one wait state or acknowledges the transfer; it inserts a wait
\* state whenever the draw triggers (always with probability 1) and
\* acknowledges whenever it does not (always with probability 0).
C18_WaitStates ==
    [][(EdgeStep /\ slave_state = "IDLE" /\ bus.PSEL = 1)
       => (/\ WaitInserted \/ Acknowledged
           /\ random_ready_probability = 100 => WaitInserted
           /\ random_ready_probability = 0 => Acknowledged)]_vars

IndexesRegisters ==
    LET word_index == WordIndex(bus.PADDR)
    IN \/ /\ slave_state \in {"START", "IDLE"} /\ bus.PSEL = 1
          /\ ZeroProbabilities
          /\ ~IdleOutOfBounds(word_index, registers)
          /\ Pwrite(bus.PWRITE) = "READ"
       \/ /\ slave_state = "ACCESS"
          /\ AccessCommitTest(word_index, registers)
          /\ Pwrite(bus.PWRITE) = "WRITE"

\* C20: at every edge at which the slave indexes the register list, the
\* word index is at least 0 and less than the length of the list.
C20_IndexSafety ==
    [][(EdgeStep /\ IndexesRegisters)
       => ListIndexOk(registers, WordIndex(bus.PADDR))]_vars

\* No send so far was made with hold.
NoHold == \A i \in 1..Len(holds) : ~holds[i]

\* Every transaction sent has been popped and completed exactly once, the
\* queue is empty, no run of the pipeline is alive and, once a run has been
\* forked, transfer_busy is false.
Drained ==
    /\ transmit_queue = <<>>
    /\ Len(completed) = Len(txn)
    /\ IdsIn(completed) = 1..Len(txn)
    /\ ~PipelineActive
    /\ Len(txn) > 0 => transfer_busy = "FALSE"

TypeOK ==
    /\ transfer_busy \in {"UNSET", "TRUE", "FALSE"}
    /\ slave_state \in {"START", "IDLE", "ACCESS", "RAISED"}
    /\ Len(txn) <= MaxSends
    /\ bus.PSEL \in {0, 1} /\ bus.PENABLE \in {0, 1} /\ bus.PREADY \in {0, 1}
    /\ Len(registers) = Len(RegistersInit)
====
